---- MODULE Spec2Model ----
(***************************************************************************)
(* A model of AzureFoundryClient (src/infrastructure/azure_foundry_client  *)
(* .py): lazy credential resolution from the secret store, the generic     *)
(* invoke dispatcher, the server-sent-event generator a streaming invoke   *)
(* returns, and the text extraction of chat_stream.                        *)
(*                                                                         *)
(* Spec runs concurrent calls on a fresh client, SpecShape one call with   *)
(* any arguments on a resolved client, SpecStream the generator of one     *)
(* streaming call, SpecChat the loop of chat_stream over decoded chunks.   *)
(*                                                                         *)
(* Strings are sequences of tokens, so that rstrip, lstrip, strip,         *)
(* startswith and removeprefix are computed and not assumed.  Python's     *)
(* None is the one-token string None.  Coroutines are interleaved at their *)
(* await points only: the code between two awaits is one step.             *)
(***************************************************************************)
EXTENDS Integers, Sequences, FiniteSets, TLC

\* ------------------------------------------------------------------ bounds

\* Concurrent invoke calls on the one client.
NumTasks == 2

\* Lines a streaming response delivers before the transport closes.
MaxLines == 3

\* Chunks a stream delivers to chat_stream before it ends.
MaxChunks == 3

\* ----------------------------------------------------------------- strings

None == <<"None">>

\* Python truthiness of an Optional[str]: None and "" are falsy.
Truthy(s) == s # None /\ s # <<>>

\* x or "" (lines 96, 97, 144).
OrEmpty(s) == IF Truthy(s) THEN s ELSE <<>>

RECURSIVE RStrip(_, _)
\* str.rstrip(chars): drop the trailing tokens that are in chars.
RStrip(s, chars) ==
    IF s # <<>> /\ s[Len(s)] \in chars THEN RStrip(SubSeq(s, 1, Len(s) - 1), chars) ELSE s

RECURSIVE LStrip(_, _)
\* str.lstrip(chars): drop the leading tokens that are in chars.
LStrip(s, chars) ==
    IF s # <<>> /\ s[1] \in chars THEN LStrip(Tail(s), chars) ELSE s

\* The whitespace tokens str.strip() removes.
Whitespace == {" "}

\* str.strip().
Strip(s) == LStrip(RStrip(s, Whitespace), Whitespace)

\* str.startswith(prefix).
StartsWith(s, prefix) ==
    Len(s) >= Len(prefix) /\ SubSeq(s, 1, Len(prefix)) = prefix

\* str.removeprefix(prefix): the string unchanged when it does not start with prefix.
RemovePrefix(s, prefix) ==
    IF StartsWith(s, prefix) THEN SubSeq(s, Len(prefix) + 1, Len(s)) ELSE s

\* ------------------------------------------------------------------- JSON

\* What json.loads makes of a chunk or a chat completion: a value that is null, a string, a list or a dict,
\* told apart by its one field.
JNull == [null |-> TRUE]
JStr(s) == [str |-> s]
JList(xs) == [list |-> xs]
JDict(m) == [dict |-> m]

\* The chat completions of the model, as text tokens: one choice, two choices, none.
HelloText == "{\"choices\":[{\"message\":{\"content\":\"hello\"}}]}"
HelloByeText ==
    "{\"choices\":[{\"message\":{\"content\":\"hello\"}},{\"message\":{\"content\":\"bye\"}}]}"
NoChoicesText == "{\"choices\":[]}"

\* A choice of a chat completion whose message has the content s.
MessageChoice(s) == JDict("message" :> JDict("content" :> JStr(s)))

\* The JSON documents of the model, as text tokens, and what json.loads makes of them.
JsonTexts == {"{\"a\":1}", "{\"a\":2}", HelloText, HelloByeText, NoChoicesText}

\* json.loads accepts surrounding whitespace and nothing else around one document.
JsonValid(text) == Len(Strip(text)) = 1 /\ Strip(text)[1] \in JsonTexts

\* The decoded mapping of a valid text.
JsonLoads(text) ==
    LET doc == Strip(text)[1] IN
    IF doc = HelloText THEN JDict("choices" :> JList(<<MessageChoice(<<"hello">>)>>))
    ELSE IF doc = HelloByeText
    THEN JDict("choices" :> JList(<<MessageChoice(<<"hello">>), MessageChoice(<<"bye">>)>>))
    ELSE IF doc = NoChoicesText THEN JDict("choices" :> JList(<<>>))
    ELSE IF doc = "{\"a\":1}" THEN [a |-> 1] ELSE [a |-> 2]

\* ---------------------------------------------------------------- mappings

\* Optional[Dict]: None, or a mapping (possibly empty, which is falsy).
NoMap == [isNone |-> TRUE]
EmptyMap == [k \in {} |-> <<>>]
TruthyMap(m) == m # NoMap /\ DOMAIN m # {}

\* ---------------------------------------------------- configuration (settings)

\* settings.azure_foundry_api_version is not a field of Settings: the getattr default.
DefaultApiVersion == <<"2024-05-01-preview">>

\* The values settings.azure_foundry_deployment can hold.
DeploymentSettings == {None, <<"default-deployment">>}

\* The routes whose JSON body must carry a routing value (module header, line 10).
RoutingRequired == {<<"chat/completions">>, <<"embeddings">>, <<"images/embeddings">>}

\* --------------------------------------------------------------- variables

VARIABLES
    default_model_deployment,     \* self.default_model_deployment
    azure_foundry_endpoint_value, \* self.azure_foundry_endpoint_value
    azure_foundry_key_value,      \* self.azure_foundry_key_value
    headers,                      \* self.headers
    vault,                        \* the secret store: the value of each named secret
    pc,                           \* where each invoke call stands
    endpoint_secret,              \* initialize's local, held across the second lookup
    args,                         \* the arguments of each invoke call
    caller_body,                  \* the caller's body mapping, as it is now
    request,                      \* url and request_kwargs each call built
    outcome,                      \* what each call returned or raised
    response,                     \* history: the response each non-streaming POST got
    chat_call,                    \* the prompt of each chat() call, and what it gave back
    get_secret_calls,             \* history: lookups the secret store received, per secret
    init_calls,                   \* history: initialize() calls each invoke made
    posts,                        \* history: outbound POSTs each invoke issued
    resolutions_done,             \* history: initialize() calls that returned normally
    started_after_resolution,     \* history: the call began after one had returned normally
    lookup_failure,               \* history: why a lookup of the call failed, if one did
    lines,                        \* the lines the streaming response delivers
    status,                       \* the streaming response's status code
    media_type,                   \* the streaming response's Content-Type
    gen,                          \* the _aiter generator's state
    pos,                          \* lines the generator has read
    yielded,                      \* chunks the generator has yielded, in order
    gen_error,                    \* the exception that ended the generator, if any
    trace,                        \* history: what the generator made of each line it read
    consumer,                     \* the consumer of the generator
    stream_client,                \* the httpx.AsyncClient of line 229
    stream_resp,                  \* the response context manager of line 230
    stream_posts,                 \* history: POSTs the generator issued
    chunks,                       \* the chunks stream_iter delivers to chat_stream
    stream_end,                   \* how stream_iter ends after them
    chat,                         \* the chat_stream generator's state
    chat_pos,                     \* chunks chat_stream has taken from stream_iter
    fragments,                    \* what chat_stream has yielded, in order
    emitted,                      \* history: what it yielded for each chunk it took
    chat_error,                   \* the exception that ended chat_stream, if any
    failed_at                     \* history: the chunk line 321 raised on, if it did

dvars == <<default_model_deployment, azure_foundry_endpoint_value, azure_foundry_key_value,
           headers, vault, pc, endpoint_secret, args,
           caller_body, request, outcome, get_secret_calls,
           init_calls, posts, resolutions_done, started_after_resolution, lookup_failure,
           response, chat_call>>

svars == <<lines, status, media_type, gen, pos, yielded, gen_error, trace, consumer, stream_client,
           stream_resp, stream_posts>>

cvars == <<chunks, stream_end, chat, chat_pos, fragments, emitted, chat_error, failed_at>>

vars == <<dvars, svars, cvars>>

Tasks == 1..NumTasks

\* ------------------------------------------------------------ header builder

\* The default of content_type (lines 130, 172).
JsonContentType == <<"application/json">>

\* A builder that lets its own keys win over the caller's (lines 152-153 moved up).
BuildHeadersBaseWins(key_value, content_type, accept, extra_params_mode, extra) ==
    LET h0 == "api-key" :> OrEmpty(key_value)
        h1 == IF Truthy(content_type) THEN ("Content-Type" :> content_type) @@ h0 ELSE h0
        h2 == IF Truthy(accept) THEN ("Accept" :> accept) @@ h1 ELSE h1
        h3 == IF extra_params_mode = "pass-through"
              THEN ("extra-parameters" :> <<"pass-through">>) @@ h2 ELSE h2
    IN  IF TruthyMap(extra) THEN h3 @@ extra ELSE h3

\* Lines 143-154: _build_headers.
BuildHeaders(key_value, content_type, accept, extra_params_mode, extra) ==
    LET h0 == "api-key" :> OrEmpty(key_value)
        h1 == IF Truthy(content_type) THEN ("Content-Type" :> content_type) @@ h0 ELSE h0
        h2 == IF Truthy(accept) THEN ("Accept" :> accept) @@ h1 ELSE h1
        h3 == IF extra_params_mode = "pass-through"
              THEN ("extra-parameters" :> <<"pass-through">>) @@ h2 ELSE h2
    IN  IF TruthyMap(extra) THEN extra @@ h3 ELSE h3

\* The cached default headers (lines 100, 117).
DefaultHeaders(key_value) == BuildHeaders(key_value, JsonContentType, None, "reject", NoMap)

\* ------------------------------------------------------------ request shaper

\* self._url: base, one separator, the route without its leading slashes, the version.
Url(base, route, api_version) ==
    OrEmpty(base) \o <<"/">> \o LStrip(route, {"/"}) \o <<"?api-version=">>
        \o (IF Truthy(api_version) THEN api_version ELSE DefaultApiVersion)

\* Line 192 with its operands swapped: the configured default before the argument.
DeploymentPreferringDefault(model, default) == IF Truthy(default) THEN default ELSE model

\* model or self.default_model_deployment (line 192).
Deployment(model, default) == IF Truthy(model) THEN model ELSE default

InjectModel(body, model, default, files, raw) ==
    IF /\ Truthy(Deployment(model, default))
       /\ "model" \notin DOMAIN body
       /\ ~TruthyMap(files)
       /\ raw = None
    THEN ("model" :> Deployment(model, default)) @@ body
    ELSE body

\* Line 196 written as body["model"] = deployment: the caller's mapping gets the key.
CallerBodyUpdatedInPlace(body, model, default, files, raw) ==
    InjectModel(body, model, default, files, raw)

\* Lines 193-196: the caller's mapping after the injection.  {**body, "model": ...}
\* builds a new dict and rebinds the local name; the caller's object is not written.
CallerBody(body, model, default, files, raw) == body

\* accept or ("text/event-stream" if stream else None) (line 199).
EffectiveAccept(accept, stream) ==
    IF Truthy(accept) THEN accept ELSE IF stream THEN <<"text/event-stream">> ELSE None

\* Line 202 testing for files alone: form fields keep the content type.
EffectiveContentTypeIgnoringData(content_type, files, data) ==
    IF TruthyMap(files) THEN None ELSE content_type

\* None if (files or data) else content_type (line 202).
EffectiveContentType(content_type, files, data) ==
    IF TruthyMap(files) \/ TruthyMap(data) THEN None ELSE content_type

\* Lines 213-225 with tests that do not exclude one another: raw content is added
\* next to form fields, and the JSON body whenever there are no files.
RequestKwargsNotExclusive(hdrs, body, files, data, raw) ==
    (IF TruthyMap(files) THEN "files" :> files ELSE EmptyMap)
        @@ (IF TruthyMap(data) THEN "data" :> data ELSE EmptyMap)
        @@ (IF raw # None THEN "content" :> raw ELSE EmptyMap)
        @@ (IF ~TruthyMap(files) /\ raw = None THEN "json" :> body ELSE EmptyMap)
        @@ ("headers" :> hdrs)

\* request_kwargs (lines 213-225).
RequestKwargs(hdrs, body, files, data, raw) ==
    LET base == "headers" :> hdrs
    IN  IF TruthyMap(files) \/ TruthyMap(data)
        THEN (IF TruthyMap(files) THEN "files" :> files ELSE EmptyMap)
             @@ (IF TruthyMap(data) THEN "data" :> data ELSE EmptyMap) @@ base
        ELSE IF raw # None THEN ("content" :> raw) @@ base
        ELSE ("json" :> body) @@ base

\* Line 204 without its keyword argument: the URL always has the configured version.
ShapeWithConfiguredVersion(a, base, key_value, default) ==
    [url |-> Url(base, a.route, None),
     kwargs |-> RequestKwargs(
         BuildHeaders(key_value,
                      EffectiveContentType(a.content_type, a.files, a.data),
                      EffectiveAccept(a.accept, a.stream),
                      a.extra_params_mode, a.headers),
         InjectModel(a.body, a.model, default, a.files, a.raw),
         a.files, a.data, a.raw)]

\* Lines 191-225: what one invoke hands to httpx, given the client's resolved state.
Shape(a, base, key_value, default) ==
    [url |-> Url(base, a.route, a.api_version),
     kwargs |-> RequestKwargs(
         BuildHeaders(key_value,
                      EffectiveContentType(a.content_type, a.files, a.data),
                      EffectiveAccept(a.accept, a.stream),
                      a.extra_params_mode, a.headers),
         InjectModel(a.body, a.model, default, a.files, a.raw),
         a.files, a.data, a.raw)]

\* ------------------------------------------------------------------ inputs

\* The values the secret store can hold for the endpoint secret and for the key secret
\* (secret.value is Optional[str]).
EndpointSecrets == {None, <<"/">>, <<"https://h/models", "/">>}
KeySecrets == {None, <<"key">>}

\* Why a lookup can fail: the store is unreachable, the named secret does not exist.
LookupFailures == {"unreachable", "missing"}

\* The keyword arguments a caller leaves at their defaults (lines 164-176).
DefaultArgs ==
    [model |-> None, stream |-> FALSE, extra_params_mode |-> "reject", headers |-> NoMap,
     api_version |-> None, content_type |-> JsonContentType, accept |-> None,
     files |-> NoMap, data |-> NoMap, raw |-> None]

\* invoke(route, body, **DefaultArgs) with the keywords in kw overriding the defaults.
Call(route, body, kw) == kw @@ DefaultArgs @@ [route |-> route, body |-> body]

\* The calls the concurrent tasks make: chat (line 261), chat_messages with a model
\* (line 289), chat_stream (line 312), and a service call on a route outside the
\* routing-required set (operational_intelligence_service.py, line 40).
InvokeArgs ==
    {Call(<<"chat/completions">>, [messages |-> <<"hi">>], EmptyMap),
     Call(<<"chat/completions">>, [messages |-> <<"hi">>], [model |-> <<"explicit-model">>]),
     Call(<<"chat/completions">>, [messages |-> <<"hi">>], [stream |-> TRUE]),
     Call(<<"ops/anomaly-detection">>, [metrics |-> <<"m">>], EmptyMap)}

\* The calls a single caller can make: each argument of invoke over the values that
\* lines 191-225 tell apart (a route with and without a leading slash; no api_version
\* and an explicit one; a body with and without a "model" key; no model, an empty
\* one, a named one; headers that add a key and headers that override api-key and
\* Content-Type; no content type, an empty one, the default; multipart files, form
\* data and raw bytes, each present or not).
ShapeArgs ==
    [route : {<<"chat/completions">>, <<"ops/anomaly-detection">>,
              <<"/", "ops/anomaly-detection">>},
     body : {[messages |-> <<"hi">>], [messages |-> <<"hi">>, model |-> <<"body-model">>]},
     model : {None, <<>>, <<"explicit-model">>},
     stream : BOOLEAN,
     extra_params_mode : {"reject", "pass-through"},
     headers : {NoMap, "x-trace" :> <<"t1">>,
                ("api-key" :> <<"caller-key">>) @@ ("Content-Type" :> <<"text/plain">>)},
     api_version : {None, <<"2025-01-01">>},
     content_type : {None, <<>>, JsonContentType},
     accept : {None, <<"application/json">>},
     files : {NoMap, [file |-> <<"f.png">>]},
     data : {NoMap, [field |-> <<"v">>]},
     raw : {None, <<"bytes">>}]

\* What the backend can answer a non-streaming POST with; status 0 stands for no
\* response at all (connection failure, timeout).
Responses ==
    {[status |-> 200, body |-> <<"{\"a\":1}">>], [status |-> 200, body |-> <<"not-json">>],
     [status |-> 500, body |-> <<"{\"a\":1}">>], [status |-> 0, body |-> <<>>]}

NoArgs == [route |-> None]
NoRequest == [url |-> None]
NoOutcome == [kind |-> "none"]
NoResponse == [status |-> -1]
NoChatCall == [prompt |-> None]
Returned(kind, value) == [kind |-> kind, value |-> value]
Raised(error, cause) == [kind |-> "error", error |-> error, cause |-> cause]

\* ------------------------------------------------------- credential resolver

\* Line 114: not self.azure_foundry_endpoint_value or not self.azure_foundry_key_value.
Unresolved(endpoint_value, key_value) == ~Truthy(endpoint_value) \/ ~Truthy(key_value)

\* Lines 96-97: the values initialize stores from the two secrets.
ResolvedEndpoint(secret_value) == RStrip(OrEmpty(secret_value), {"/"})
ResolvedKey(secret_value) == OrEmpty(secret_value)

\* A slip in lines 102-104: the RuntimeError is raised without the exception it caught.
InitializationErrorWithoutCause(cause) == Raised("RuntimeError", "none")

\* Lines 102-104: any exception inside initialize becomes a RuntimeError carrying it.
InitializationError(cause) == Raised("RuntimeError", cause)

\* The stream variables do not move while the dispatcher runs.
StreamIdle ==
    /\ lines = <<>> /\ status = 0 /\ media_type = "none" /\ gen = "none" /\ pos = 0 /\ yielded = <<>>
    /\ gen_error = "none" /\ trace = <<>> /\ consumer = "none"
    /\ stream_client = "none" /\ stream_resp = "none" /\ stream_posts = 0

\* The chat_stream variables do not move while the dispatcher or the generator runs.
ChatIdle ==
    /\ chunks = <<>> /\ stream_end = "none" /\ chat = "none" /\ chat_pos = 0
    /\ fragments = <<>> /\ emitted = <<>> /\ chat_error = "none" /\ failed_at = 0

Init ==
    /\ default_model_deployment \in DeploymentSettings
    /\ azure_foundry_endpoint_value = None
    /\ azure_foundry_key_value = None
    /\ headers = NoMap
    /\ vault \in [endpoint : EndpointSecrets, key : KeySecrets]
    /\ pc = [t \in Tasks |-> "idle"]
    /\ endpoint_secret = [t \in Tasks |-> None]
    /\ args = [t \in Tasks |-> NoArgs]
    /\ caller_body = [t \in Tasks |-> NoMap]
    /\ request = [t \in Tasks |-> NoRequest]
    /\ outcome = [t \in Tasks |-> NoOutcome]
    /\ get_secret_calls = [endpoint |-> 0, key |-> 0]
    /\ init_calls = [t \in Tasks |-> 0]
    /\ posts = [t \in Tasks |-> 0]
    /\ resolutions_done = 0
    /\ started_after_resolution = [t \in Tasks |-> FALSE]
    /\ lookup_failure = [t \in Tasks |-> "none"]
    /\ response = [t \in Tasks |-> NoResponse]
    /\ chat_call = [t \in Tasks |-> NoChatCall]
    /\ StreamIdle
    /\ ChatIdle

\* Lines 116-117 and 191-247 up to the first await: _ensure_ready caches the default
\* headers if they are missing, invoke shapes the request; a streaming call returns the
\* generator without sending, any other call sends its POST and awaits the response.
DispatchWith(t, key_value, cached, calls) ==
    \E a \in calls :
        /\ headers' = IF cached = NoMap THEN DefaultHeaders(key_value) ELSE cached
        /\ args' = [args EXCEPT ![t] = a]
        /\ caller_body' = [caller_body EXCEPT ![t] =
               CallerBody(a.body, a.model, default_model_deployment, a.files, a.raw)]
        /\ request' = [request EXCEPT ![t] =
               Shape(a, azure_foundry_endpoint_value, key_value, default_model_deployment)]
        /\ IF a.stream
           THEN /\ pc' = [pc EXCEPT ![t] = "done"]
                /\ outcome' = [outcome EXCEPT ![t] = Returned("iterator", <<>>)]
                /\ posts' = posts
           ELSE /\ pc' = [pc EXCEPT ![t] = "await_response"]
                /\ outcome' = outcome
                /\ posts' = [posts EXCEPT ![t] = @ + 1]

\* The same, for one of the calls the concurrent tasks make.
Dispatch(t, key_value, cached) == DispatchWith(t, key_value, cached, InvokeArgs)

\* Line 189, lines 106-117: invoke enters _ensure_ready.  Unresolved credentials start
\* initialize, which runs up to its first lookup; resolved ones go straight on.
InvokeWith(t, calls) ==
    /\ pc[t] = "idle"
    /\ started_after_resolution' = [started_after_resolution EXCEPT ![t] = resolutions_done > 0]
    /\ IF Unresolved(azure_foundry_endpoint_value, azure_foundry_key_value)
       THEN /\ pc' = [pc EXCEPT ![t] = "get_endpoint"]
            /\ init_calls' = [init_calls EXCEPT ![t] = @ + 1]
            /\ UNCHANGED <<headers, args, caller_body, request, outcome, posts>>
       ELSE /\ DispatchWith(t, azure_foundry_key_value, headers, calls)
            /\ UNCHANGED init_calls
    /\ UNCHANGED <<default_model_deployment, azure_foundry_endpoint_value,
                   azure_foundry_key_value, vault, endpoint_secret, get_secret_calls,
                   resolutions_done, lookup_failure, response, svars, cvars>>

\* The same, for one of the calls the concurrent tasks make.
Invoke(t) == InvokeWith(t, InvokeArgs) /\ UNCHANGED chat_call

\* Lines 159-247 on their own: a call with any of the arguments of ShapeArgs, made
\* while no other call is under way.
InvokeShaped(t) ==
    /\ \A u \in Tasks : pc[u] = "idle"
    /\ InvokeWith(t, ShapeArgs)
    /\ UNCHANGED chat_call

\* Line 93: the lookup of the endpoint secret completes, or fails (lines 102-104).
GetEndpointSecret(t) ==
    /\ pc[t] = "get_endpoint"
    /\ get_secret_calls' = [get_secret_calls EXCEPT !.endpoint = @ + 1]
    /\ \/ /\ endpoint_secret' = [endpoint_secret EXCEPT ![t] = vault.endpoint]
          /\ pc' = [pc EXCEPT ![t] = "get_key"]
          /\ UNCHANGED <<outcome, lookup_failure>>
       \/ \E cause \in LookupFailures :
            /\ lookup_failure' = [lookup_failure EXCEPT ![t] = cause]
            /\ pc' = [pc EXCEPT ![t] = "done"]
            /\ outcome' = [outcome EXCEPT ![t] = InitializationError(cause)]
            /\ endpoint_secret' = endpoint_secret
    /\ UNCHANGED <<default_model_deployment, azure_foundry_endpoint_value,
                   azure_foundry_key_value, headers, vault, args,
                   caller_body, request, init_calls, posts,
                   resolutions_done, started_after_resolution, response, chat_call,
                   svars, cvars>>

\* Lines 94-97: the lookup of the key secret completes and both values are stored, or it
\* fails (lines 102-104).
GetKeySecret(t) ==
    /\ pc[t] = "get_key"
    /\ get_secret_calls' = [get_secret_calls EXCEPT !.key = @ + 1]
    /\ \/ /\ azure_foundry_endpoint_value' = ResolvedEndpoint(endpoint_secret[t])
          /\ azure_foundry_key_value' = ResolvedKey(vault.key)
          /\ pc' = [pc EXCEPT ![t] = "close_session"]
          /\ UNCHANGED <<outcome, lookup_failure>>
       \/ \E cause \in LookupFailures :
            /\ lookup_failure' = [lookup_failure EXCEPT ![t] = cause]
            /\ pc' = [pc EXCEPT ![t] = "done"]
            /\ outcome' = [outcome EXCEPT ![t] = InitializationError(cause)]
            /\ UNCHANGED <<azure_foundry_endpoint_value, azure_foundry_key_value>>
    /\ UNCHANGED <<default_model_deployment, headers, vault, endpoint_secret, args,
                   caller_body, request,
                   init_calls, posts, resolutions_done, started_after_resolution, response,
                   chat_call, svars, cvars>>

\* Lines 91-92 on exit, then 100 and 116-117: the secret client and the credential are
\* closed; initialize caches the default headers and returns, and invoke goes on.  A
\* failing close is caught by line 102 like any other exception.
CloseSession(t) ==
    /\ pc[t] = "close_session"
    /\ \/ /\ resolutions_done' = resolutions_done + 1
          /\ Dispatch(t, azure_foundry_key_value, DefaultHeaders(azure_foundry_key_value))
       \/ /\ pc' = [pc EXCEPT ![t] = "done"]
          /\ outcome' = [outcome EXCEPT ![t] = InitializationError("close")]
          /\ UNCHANGED <<headers, args, caller_body, request, posts, resolutions_done>>
    /\ UNCHANGED <<default_model_deployment, azure_foundry_endpoint_value,
                   azure_foundry_key_value, vault, endpoint_secret, get_secret_calls,
                   init_calls, started_after_resolution, lookup_failure, response, chat_call,
                   svars, cvars>>

\* Line 246 left out: the body is decoded whatever the status of the response.
ResponseOutcomeWithoutStatusCheck(r) ==
    IF r.status = 0 THEN Raised("TransportError", "none")
    ELSE IF ~JsonValid(r.body) THEN Raised("JSONDecodeError", "none")
    ELSE Returned("json", JsonLoads(r.body))

\* Lines 245-247: what invoke makes of the response r; client.post raises when there is
\* none, then raise_for_status, then resp.json().
ResponseOutcome(r) ==
    IF r.status = 0 THEN Raised("TransportError", "none")
    ELSE IF r.status \notin 200..299 THEN Raised("HTTPStatusError", "none")
    ELSE IF ~JsonValid(r.body) THEN Raised("JSONDecodeError", "none")
    ELSE Returned("json", JsonLoads(r.body))

\* Lines 245-247: the response arrives, or the POST fails (connection failure,
\* timeout): the call returns or raises, and sends nothing more.
RespondWith(t, responses) ==
    /\ pc[t] = "await_response"
    /\ \E r \in responses :
        /\ response' = [response EXCEPT ![t] = r]
        /\ outcome' = [outcome EXCEPT ![t] = ResponseOutcome(r)]
    /\ pc' = [pc EXCEPT ![t] = "done"]
    /\ UNCHANGED <<default_model_deployment, azure_foundry_endpoint_value,
                   azure_foundry_key_value, headers, vault, endpoint_secret, args,
                   caller_body, request,
                   get_secret_calls, init_calls, posts, resolutions_done,
                   started_after_resolution, lookup_failure, svars, cvars>>

\* A client that sends its POST again when the first one failed.
RespondRetrying(t) ==
    /\ pc[t] = "await_response"
    /\ \E r \in Responses :
        /\ response' = [response EXCEPT ![t] = r]
        /\ IF ResponseOutcome(r).kind = "error" /\ posts[t] < 2
           THEN /\ posts' = [posts EXCEPT ![t] = @ + 1]
                /\ UNCHANGED <<outcome, pc>>
           ELSE /\ outcome' = [outcome EXCEPT ![t] = ResponseOutcome(r)]
                /\ pc' = [pc EXCEPT ![t] = "done"]
                /\ posts' = posts
    /\ UNCHANGED <<default_model_deployment, azure_foundry_endpoint_value,
                   azure_foundry_key_value, headers, vault, endpoint_secret, args,
                   caller_body, request,
                   get_secret_calls, init_calls, resolutions_done,
                   started_after_resolution, lookup_failure, chat_call, svars, cvars>>

\* The same, for one of the answers the concurrent tasks get.
Respond(t) == RespondWith(t, Responses) /\ UNCHANGED chat_call

Next ==
    \E t \in Tasks :
        \/ Invoke(t)
        \/ GetEndpointSecret(t)
        \/ GetKeySecret(t)
        \/ CloseSession(t)
        \/ Respond(t)

Spec == Init /\ [][Next]_vars

\* A client whose credentials an earlier initialize() resolved (lines 96-100), with or
\* without a configured default deployment, and no call under way.
InitShape ==
    /\ default_model_deployment \in DeploymentSettings
    /\ vault = [endpoint |-> <<"https://h/models", "/">>, key |-> <<"key">>]
    /\ azure_foundry_endpoint_value = ResolvedEndpoint(vault.endpoint)
    /\ azure_foundry_key_value = ResolvedKey(vault.key)
    /\ headers = DefaultHeaders(azure_foundry_key_value)
    /\ pc = [t \in Tasks |-> "idle"]
    /\ endpoint_secret = [t \in Tasks |-> None]
    /\ args = [t \in Tasks |-> NoArgs]
    /\ caller_body = [t \in Tasks |-> NoMap]
    /\ request = [t \in Tasks |-> NoRequest]
    /\ outcome = [t \in Tasks |-> NoOutcome]
    /\ get_secret_calls = [endpoint |-> 1, key |-> 1]
    /\ init_calls = [t \in Tasks |-> 0]
    /\ posts = [t \in Tasks |-> 0]
    /\ resolutions_done = 1
    /\ started_after_resolution = [t \in Tasks |-> FALSE]
    /\ lookup_failure = [t \in Tasks |-> "none"]
    /\ response = [t \in Tasks |-> NoResponse]
    /\ chat_call = [t \in Tasks |-> NoChatCall]
    /\ StreamIdle
    /\ ChatIdle

NextShape ==
    \E t \in Tasks :
        \/ InvokeShaped(t)
        \/ Respond(t)

SpecShape == InitShape /\ [][NextShape]_vars

\* ---------------------------------------------------------- SSE generator

\* The frame marker, the marker with the one space line 241 removes, the sentinel line.
Marker == <<"data:">>
MarkerSpace == <<"data:", " ">>
DoneLine == <<"data:", " ", "[DONE]">>

\* The lines r.aiter_lines() can deliver: blank, a comment, payloads and sentinels with
\* no, one or two spaces after the marker, a sentinel with trailing whitespace, a
\* payload that is not JSON, and a JSON document on a line without the marker.
LineInputs ==
    {<<>>, <<": keep-alive">>, <<"{\"a\":1}">>,
     <<"data:", " ", "{\"a\":1}">>, <<"data:", " ", "{\"a\":2}">>,
     <<"data:", "{\"a\":1}">>, <<"data:", " ", " ", "{\"a\":2}">>,
     <<"data:", " ", "[DONE]">>, <<"data:", "[DONE]">>, <<"data:", " ", " ", "[DONE]">>,
     <<"data:", " ", "[DONE]", " ">>,
     <<"data:", " ", "not-json">>}

\* The status of the streaming response; 0 stands for no response (connection failure).
StatusInputs == {200, 500, 0}

\* The Content-Type of the streaming response: an event stream, or a JSON document.
MediaTypeInputs == {"text/event-stream", "application/json"}

\* A decoder that drops a frame it cannot decode instead of raising.
ClassifySkippingMalformed(line) ==
    IF line = <<>> \/ ~StartsWith(line, Marker) THEN [kind |-> "ignore"]
    ELSE IF Strip(line) = DoneLine THEN [kind |-> "done"]
    ELSE IF JsonValid(Strip(RemovePrefix(line, MarkerSpace)))
         THEN [kind |-> "chunk", value |-> JsonLoads(Strip(RemovePrefix(line, MarkerSpace)))]
         ELSE [kind |-> "ignore"]

\* Lines 237-241: what the loop body does with one line.
Classify(line) ==
    IF line = <<>> \/ ~StartsWith(line, Marker) THEN [kind |-> "ignore"]
    ELSE IF Strip(line) = DoneLine THEN [kind |-> "done"]
    ELSE IF JsonValid(Strip(RemovePrefix(line, MarkerSpace)))
         THEN [kind |-> "chunk", value |-> JsonLoads(Strip(RemovePrefix(line, MarkerSpace)))]
         ELSE [kind |-> "error"]

\* The streaming chat call chat_stream makes (lines 312-318).
StreamingCall == Call(<<"chat/completions">>, [messages |-> <<"hi">>], [stream |-> TRUE])

\* The client after task 1 has made that call on it, unresolved until then.
ClientAfterStreamingCall ==
    /\ default_model_deployment = <<"default-deployment">>
    /\ vault = [endpoint |-> <<"https://h/models", "/">>, key |-> <<"key">>]
    /\ azure_foundry_endpoint_value = ResolvedEndpoint(vault.endpoint)
    /\ azure_foundry_key_value = ResolvedKey(vault.key)
    /\ headers = DefaultHeaders(azure_foundry_key_value)
    /\ pc = [t \in Tasks |-> IF t = 1 THEN "done" ELSE "idle"]
    /\ endpoint_secret = [t \in Tasks |-> IF t = 1 THEN vault.endpoint ELSE None]
    /\ args = [t \in Tasks |-> IF t = 1 THEN StreamingCall ELSE NoArgs]
    /\ caller_body = [t \in Tasks |-> IF t = 1 THEN StreamingCall.body ELSE NoMap]
    /\ request = [t \in Tasks |->
           IF t = 1 THEN Shape(StreamingCall, azure_foundry_endpoint_value,
                               azure_foundry_key_value, default_model_deployment)
           ELSE NoRequest]
    /\ outcome = [t \in Tasks |-> IF t = 1 THEN Returned("iterator", <<>>) ELSE NoOutcome]
    /\ get_secret_calls = [endpoint |-> 1, key |-> 1]
    /\ init_calls = [t \in Tasks |-> IF t = 1 THEN 1 ELSE 0]
    /\ posts = [t \in Tasks |-> 0]
    /\ resolutions_done = 1
    /\ started_after_resolution = [t \in Tasks |-> FALSE]
    /\ lookup_failure = [t \in Tasks |-> "none"]
    /\ response = [t \in Tasks |-> NoResponse]
    /\ chat_call = [t \in Tasks |-> NoChatCall]

\* Lines 230-234 run inside invoke: the POST is under way when the generator is
\* returned.
InitStreamEager ==
    /\ ClientAfterStreamingCall
    /\ ChatIdle
    /\ lines \in UNION {[1..n -> LineInputs] : n \in 0..MaxLines}
    /\ status \in StatusInputs
    /\ media_type \in MediaTypeInputs
    /\ gen = "created"
    /\ pos = 0
    /\ yielded = <<>>
    /\ gen_error = "none"
    /\ trace = <<>>
    /\ consumer = "ready"
    /\ stream_client = "open"
    /\ stream_resp = "pending"
    /\ stream_posts = 1

\* Lines 227-242: the streaming call has returned its generator; client and response
\* context are created, nothing is sent, the generator body has not started.
InitStream ==
    /\ ClientAfterStreamingCall
    /\ ChatIdle
    /\ lines \in UNION {[1..n -> LineInputs] : n \in 0..MaxLines}
    /\ status \in StatusInputs
    /\ media_type \in MediaTypeInputs
    /\ gen = "created"
    /\ pos = 0
    /\ yielded = <<>>
    /\ gen_error = "none"
    /\ trace = <<>>
    /\ consumer = "ready"
    /\ stream_client = "created"
    /\ stream_resp = "created"
    /\ stream_posts = 0

\* Leaving "async with resp_cm" and "async with client" (lines 233-234), by whichever
\* way: both are closed.
ReleaseConnection ==
    /\ stream_resp' = "closed"
    /\ stream_client' = "closed"

\* The generator ends by raising: the exception leaves both with-blocks and reaches the
\* consumer's pull.
GeneratorRaises(error) ==
    /\ ReleaseConnection
    /\ gen' = "failed"
    /\ gen_error' = error
    /\ consumer' = "failed"

\* The generator ends normally (break or end of the loop): StopAsyncIteration.
GeneratorReturns ==
    /\ ReleaseConnection
    /\ gen' = "exhausted"
    /\ gen_error' = gen_error
    /\ consumer' = "finished"

\* The consumer asks for the next chunk.  The first pull starts the generator body:
\* lines 233-234 enter the client and send the POST.
Pull ==
    /\ consumer = "ready"
    /\ gen \in {"created", "suspended"}
    /\ consumer' = "waiting"
    /\ IF gen = "created"
       THEN /\ gen' = "opening"
            /\ stream_client' = "open"
            /\ stream_resp' = "pending"
            /\ stream_posts' = stream_posts + 1
       ELSE /\ gen' = "running"
            /\ UNCHANGED <<stream_client, stream_resp, stream_posts>>
    /\ UNCHANGED <<lines, status, media_type, pos, yielded, gen_error, trace, dvars, cvars>>

\* Line 235 left out: the loop is entered whatever the status of the response.
OpenResponseWithoutStatusCheck ==
    /\ gen = "opening"
    /\ IF status = 0 THEN GeneratorRaises("TransportError")
       ELSE /\ stream_resp' = "open"
            /\ gen' = "running"
            /\ UNCHANGED <<stream_client, gen_error, consumer>>
    /\ UNCHANGED <<lines, status, media_type, pos, yielded, trace, stream_posts, dvars, cvars>>

\* Lines 234-235: the response headers arrive, or the connection fails; then
\* r.raise_for_status().
OpenResponse ==
    /\ gen = "opening"
    /\ IF status = 0 THEN GeneratorRaises("TransportError")
       ELSE IF status \notin 200..299 THEN GeneratorRaises("HTTPStatusError")
       ELSE /\ stream_resp' = "open"
            /\ gen' = "running"
            /\ UNCHANGED <<stream_client, gen_error, consumer>>
    /\ UNCHANGED <<lines, status, media_type, pos, yielded, trace, stream_posts, dvars, cvars>>

\* Lines 236-241: one turn of the loop on the next line.
ReadLine ==
    /\ gen = "running"
    /\ pos < Len(lines)
    /\ pos' = pos + 1
    /\ trace' = Append(trace, Classify(lines[pos + 1]))
    /\ LET c == Classify(lines[pos + 1])
       IN  CASE c.kind = "ignore" ->
                    UNCHANGED <<gen, gen_error, consumer, yielded, stream_client, stream_resp>>
             [] c.kind = "done" -> GeneratorReturns /\ UNCHANGED yielded
             [] c.kind = "chunk" ->
                    /\ yielded' = Append(yielded, c.value)
                    /\ gen' = "suspended"
                    /\ consumer' = "ready"
                    /\ UNCHANGED <<gen_error, stream_client, stream_resp>>
             [] c.kind = "error" -> GeneratorRaises("JSONDecodeError") /\ UNCHANGED yielded
    /\ UNCHANGED <<lines, status, media_type, stream_posts, dvars, cvars>>

\* Line 236: the transport has closed, aiter_lines ends and so does the generator.
EndOfLines ==
    /\ gen = "running"
    /\ pos = Len(lines)
    /\ GeneratorReturns
    /\ UNCHANGED <<lines, status, media_type, pos, yielded, trace, stream_posts, dvars, cvars>>

\* Line 236: reading the body fails (the connection drops mid-stream).
ReadFails ==
    /\ gen = "running"
    /\ GeneratorRaises("TransportError")
    /\ UNCHANGED <<lines, status, media_type, pos, yielded, trace, stream_posts, dvars, cvars>>

\* The consumer leaves its "async for" between two pulls (break, return, or it never
\* iterates).  Nothing closes the generator here: it stays suspended at line 241, or
\* unstarted.
StopEarly ==
    /\ consumer = "ready"
    /\ gen \in {"created", "suspended"}
    /\ consumer' = "stopped"
    /\ UNCHANGED <<lines, status, media_type, gen, pos, yielded, gen_error, trace, stream_client,
                   stream_resp, stream_posts, dvars, cvars>>

\* The abandoned generator is collected and the event loop's finalizer runs aclose() on
\* it.  A generator suspended at line 241 gets GeneratorExit there and leaves both
\* with-blocks; one that never started has no frame to unwind, and line 233 never runs.
Finalize ==
    /\ consumer = "stopped"
    /\ gen \in {"created", "suspended"}
    /\ gen' = "closed"
    /\ IF gen = "suspended" THEN ReleaseConnection ELSE UNCHANGED <<stream_client, stream_resp>>
    /\ UNCHANGED <<lines, status, media_type, pos, yielded, gen_error, trace, consumer, stream_posts,
                   dvars, cvars>>

NextStream ==
    \/ Pull
    \/ OpenResponse
    \/ ReadLine
    \/ EndOfLines
    \/ ReadFails
    \/ StopEarly
    \/ Finalize

SpecStream == InitStream /\ [][NextStream]_vars

\* -------------------------------------------------------------- chat_stream

\* Python truthiness of a decoded value (line 322): None, "", [] and {} are falsy.
JTruthy(v) ==
    IF "null" \in DOMAIN v THEN FALSE
    ELSE IF "str" \in DOMAIN v THEN v.str # <<>>
    ELSE IF "list" \in DOMAIN v THEN v.list # <<>>
    ELSE DOMAIN v.dict # {}

\* A chunk with one choice; the chunks of a chat completion stream are built from it.
ChoiceChunk(choice) == JDict("choices" :> JList(<<JDict(choice)>>))
TextDelta(s) == ChoiceChunk("delta" :> JDict("content" :> JStr(s)))
TextPart(s) == JDict(("type" :> JStr(<<"text">>)) @@ ("text" :> JStr(s)))
ImagePart == JDict(("type" :> JStr(<<"image_url">>)) @@ ("image_url" :> JStr(<<"u">>)))
PartsDelta(parts) == ChoiceChunk("delta" :> JDict("content" :> JList(parts)))
ErrorBody == JDict("message" :> JStr(<<"boom">>))

\* The chunks the backend can send: text deltas (one of them empty), a delta with a
\* role and no content, an empty choice list, no choice list, an error, an error next
\* to a text delta, deltas whose content is a list of parts, a final message, and a
\* choice whose delta is null.
ChunkInputs ==
    {TextDelta(<<"Hel">>), TextDelta(<<"lo">>), TextDelta(<<>>),
     ChoiceChunk("delta" :> JDict("role" :> JStr(<<"assistant">>))),
     JDict("choices" :> JList(<<>>)),
     JDict("id" :> JStr(<<"x">>)),
     JDict("error" :> ErrorBody),
     JDict(("error" :> ErrorBody) @@ TextDelta(<<"Hel">>).dict),
     PartsDelta(<<TextPart(<<"Yo">>), ImagePart>>),
     PartsDelta(<<TextPart(<<"A">>), TextPart(<<"B">>)>>),
     ChoiceChunk("message" :> JDict("content" :> JStr(<<"Done">>))),
     ChoiceChunk("delta" :> JNull)}

\* How stream_iter ends once its chunks are delivered: normally, or by raising.
StreamEndInputs == {"StopAsyncIteration", "TransportError"}

\* A loop body that also yields a content that is empty (line 322 testing for None).
ExtractYieldingEmpty(chunk) ==
    IF "choices" \notin DOMAIN chunk.dict THEN [kind |-> "error", error |-> "KeyError"]
    ELSE IF "list" \notin DOMAIN chunk.dict["choices"]
         THEN [kind |-> "error", error |-> "TypeError"]
    ELSE IF chunk.dict["choices"].list = <<>> THEN [kind |-> "error", error |-> "IndexError"]
    ELSE LET choice == chunk.dict["choices"].list[1].dict
             delta == IF "delta" \in DOMAIN choice THEN choice["delta"] ELSE JDict(<<>>)
         IN  IF "dict" \notin DOMAIN delta THEN [kind |-> "error", error |-> "AttributeError"]
             ELSE LET content == IF "content" \in DOMAIN delta.dict
                                 THEN delta.dict["content"] ELSE JNull
                  IN  IF content # JNull THEN [kind |-> "yield", value |-> content]
                      ELSE [kind |-> "nothing"]

\* Lines 321-323: what the loop body does with one chunk.  chunk["choices"] raises
\* KeyError without the key, [0] raises IndexError on an empty list and TypeError on
\* null, .get on a null delta raises AttributeError; a truthy content is yielded as it
\* is.
Extract(chunk) ==
    IF "choices" \notin DOMAIN chunk.dict THEN [kind |-> "error", error |-> "KeyError"]
    ELSE IF "list" \notin DOMAIN chunk.dict["choices"]
         THEN [kind |-> "error", error |-> "TypeError"]
    ELSE IF chunk.dict["choices"].list = <<>> THEN [kind |-> "error", error |-> "IndexError"]
    ELSE LET choice == chunk.dict["choices"].list[1].dict
             delta == IF "delta" \in DOMAIN choice THEN choice["delta"] ELSE JDict(<<>>)
         IN  IF "dict" \notin DOMAIN delta THEN [kind |-> "error", error |-> "AttributeError"]
             ELSE LET content == IF "content" \in DOMAIN delta.dict
                                 THEN delta.dict["content"] ELSE JNull
                  IN  IF JTruthy(content) THEN [kind |-> "yield", value |-> content]
                      ELSE [kind |-> "nothing"]

\* chat_stream after its first pull has run lines 312-318: task 1's streaming call has
\* returned stream_iter, and line 320 waits for the first chunk.
InitChat ==
    /\ ClientAfterStreamingCall
    /\ StreamIdle
    /\ chunks \in UNION {[1..n -> ChunkInputs] : n \in 0..MaxChunks}
    /\ stream_end \in StreamEndInputs
    /\ chat = "running"
    /\ chat_pos = 0
    /\ fragments = <<>>
    /\ emitted = <<>>
    /\ chat_error = "none"
    /\ failed_at = 0

\* Lines 320-323: stream_iter delivers its next chunk and the loop body runs on it.
NextChunk ==
    /\ chat = "running"
    /\ chat_pos < Len(chunks)
    /\ chat_pos' = chat_pos + 1
    /\ LET e == Extract(chunks[chat_pos + 1])
       IN  CASE e.kind = "yield" ->
                    /\ fragments' = Append(fragments, e.value)
                    /\ emitted' = Append(emitted, <<e.value>>)
                    /\ chat' = "suspended"
                    /\ UNCHANGED <<chat_error, failed_at>>
             [] e.kind = "nothing" ->
                    /\ emitted' = Append(emitted, <<>>)
                    /\ UNCHANGED <<fragments, chat, chat_error, failed_at>>
             [] e.kind = "error" ->
                    /\ emitted' = Append(emitted, <<>>)
                    /\ chat' = "failed"
                    /\ chat_error' = e.error
                    /\ failed_at' = chat_pos + 1
                    /\ UNCHANGED fragments
    /\ UNCHANGED <<chunks, stream_end, dvars, svars>>

\* Line 320: stream_iter ends, normally or by raising; nothing in chat_stream catches
\* what it raises.
StreamEnds ==
    /\ chat = "running"
    /\ chat_pos = Len(chunks)
    /\ IF stream_end = "StopAsyncIteration"
       THEN chat' = "exhausted" /\ UNCHANGED chat_error
       ELSE chat' = "failed" /\ chat_error' = stream_end
    /\ UNCHANGED <<chunks, stream_end, chat_pos, fragments, emitted, failed_at, dvars, svars>>

\* The consumer asks for the next fragment: chat_stream resumes after line 323.
ChatPull ==
    /\ chat = "suspended"
    /\ chat' = "running"
    /\ UNCHANGED <<chunks, stream_end, chat_pos, fragments, emitted, chat_error, failed_at,
                   dvars, svars>>

NextChat ==
    \/ NextChunk
    \/ StreamEnds
    \/ ChatPull

SpecChat == InitChat /\ [][NextChat]_vars

\* ------------------------------------------------- claims on the dispatcher

\* The call of task t needs a routing value and has none: a JSON request on a
\* routing-required route, no "model" key in the body, no model argument, no default.
MissingRoutingValue(t) ==
    /\ args[t].route \in RoutingRequired
    /\ "model" \notin DOMAIN args[t].body
    /\ ~Truthy(args[t].model)
    /\ ~Truthy(default_model_deployment)
    /\ ~TruthyMap(args[t].files) /\ ~TruthyMap(args[t].data) /\ args[t].raw = None

\* C1: an invoke on a routing-required route with no "model" key in the body, no model
\* argument and no configured default fails with a configuration error, and issues no
\* outbound request.
C1_MissingRoutingValueFailsBeforeSend ==
    \A t \in Tasks :
        MissingRoutingValue(t) =>
            /\ posts[t] = 0
            /\ pc[t] = "done"
            /\ outcome[t].kind = "error" /\ outcome[t].error = "ConfigurationError"

\* The secret store answers every lookup, with two non-empty values.
StoreHealthy ==
    /\ Truthy(ResolvedEndpoint(vault.endpoint))
    /\ Truthy(ResolvedKey(vault.key))
    /\ \A t \in Tasks : lookup_failure[t] = "none"

\* C2: however the invoke calls on an unresolved client interleave, the secret store
\* receives at most one lookup of the endpoint secret and one of the key secret.
C2_ConcurrentCallsResolveOnce ==
    StoreHealthy => get_secret_calls.endpoint <= 1 /\ get_secret_calls.key <= 1

\* C3: an invoke that begins after one resolution has returned normally calls
\* initialize no more, so it looks up no secret and stores no value.
C3_NoLookupAfterResolution ==
    \A t \in Tasks : started_after_resolution[t] => init_calls[t] = 0

\* C4: a request that was sent carries a non-empty API key and was built on a
\* non-empty base URL.
C4_RequestsCarryResolvedCredentials ==
    \A t \in Tasks :
        posts[t] > 0 =>
            /\ Truthy(azure_foundry_endpoint_value)
            /\ Truthy(azure_foundry_key_value)
            /\ request[t].kwargs["headers"]["api-key"] # <<>>

\* C5: when a lookup of the call fails (the store is unreachable, the secret does not
\* exist), the call has ended with the initialization error that carries that cause,
\* after one initialize() and without any outbound request.
C5_LookupFailureIsFatal ==
    \A t \in Tasks :
        lookup_failure[t] # "none" =>
            /\ pc[t] = "done"
            /\ outcome[t] = Raised("RuntimeError", lookup_failure[t])
            /\ init_calls[t] = 1
            /\ posts[t] = 0

\* A call whose key lookup found no such secret, after its endpoint lookup succeeded.
C5_Witness ==
    \E t \in Tasks :
        /\ lookup_failure[t] = "missing"
        /\ pc[t] = "done"
        /\ get_secret_calls.key >= 1

\* The response of task t has a status outside 2xx.
NonSuccess(t) == response[t].status # 0 /\ response[t].status \notin 200..299

\* The response of task t has a 2xx status.
Success(t) == response[t].status \in 200..299

\* C12: a non-streaming call that got a response has ended: on a non-2xx status it
\* raised the status error and returned nothing; on a 2xx status with a JSON body it
\* returned that body parsed; on a 2xx status with a body that is not JSON it raised.
C12_ResponseDecidesTheOutcome ==
    \A t \in Tasks :
        response[t] # NoResponse =>
            /\ pc[t] = "done"
            /\ NonSuccess(t) =>
                   outcome[t].kind = "error" /\ outcome[t].error = "HTTPStatusError"
            /\ (Success(t) /\ JsonValid(response[t].body)) =>
                   outcome[t] = Returned("json", JsonLoads(response[t].body))
            /\ (Success(t) /\ ~JsonValid(response[t].body)) => outcome[t].kind = "error"

\* One call answered 500 with a JSON body, another answered 200 with one.
C12_Witness ==
    \E t, u \in Tasks :
        /\ response[t].status = 500 /\ JsonValid(response[t].body)
        /\ response[u].status = 200 /\ outcome[u] = Returned("json", [a |-> 1])

\* C13: no call issues more than one POST, the generator of a streaming call
\* included; a call whose POST failed (no response, non-2xx status, undecodable body)
\* has ended with the error after that one POST, and a generator that failed has
\* handed its error to the consumer.
C13_AtMostOnePostPerCall ==
    /\ \A t \in Tasks :
          /\ posts[t] <= 1
          /\ (response[t] # NoResponse /\ ResponseOutcome(response[t]).kind = "error") =>
                 pc[t] = "done" /\ outcome[t].kind = "error" /\ posts[t] = 1
    /\ stream_posts <= 1
    /\ gen = "failed" => consumer = "failed"

\* Every call has failed after its POST, each in another way or the same.
C13_Witness ==
    /\ \A t \in Tasks : posts[t] = 1 /\ pc[t] = "done" /\ outcome[t].kind = "error"
    /\ \E t \in Tasks : response[t].status = 0
    /\ \E t \in Tasks : response[t].status = 200

\* -------------------------------------------------- claims on the SSE generator

\* The frame classes as the specification words them: a frame is a line that starts
\* with the marker, its content is the rest of the line trimmed, the sentinel frame is
\* the one whose content is [DONE], and a payload is decoded from the rest of the line
\* with its leading space stripped.
IsFrame(line) == StartsWith(line, Marker)
Remainder(line) == SubSeq(line, Len(Marker) + 1, Len(line))
IsSentinelFrame(line) == IsFrame(line) /\ Strip(Remainder(line)) = <<"[DONE]">>
IsPayloadFrame(line) == IsFrame(line) /\ ~IsSentinelFrame(line)
IsMalformedFrame(line) == IsPayloadFrame(line) /\ ~JsonValid(LStrip(Remainder(line), Whitespace))

ExpectedClass(line) ==
    IF ~IsFrame(line) THEN [kind |-> "ignore"]
    ELSE IF IsSentinelFrame(line) THEN [kind |-> "done"]
    ELSE IF IsMalformedFrame(line) THEN [kind |-> "error"]
    ELSE [kind |-> "chunk", value |-> JsonLoads(LStrip(Remainder(line), Whitespace))]

RECURSIVE ExpectedChunks(_)
\* The decoded payloads of the frames of ls, in order, up to its first sentinel frame.
ExpectedChunks(ls) ==
    IF ls = <<>> \/ IsSentinelFrame(Head(ls)) THEN <<>>
    ELSE IF ExpectedClass(Head(ls)).kind = "chunk"
         THEN <<ExpectedClass(Head(ls)).value>> \o ExpectedChunks(Tail(ls))
         ELSE ExpectedChunks(Tail(ls))

\* Every payload frame of ls before its first sentinel frame is well-formed.
WellFormedStream(ls) ==
    \A k \in 1..Len(ls) :
        (\A j \in 1..(k - 1) : ~IsSentinelFrame(ls[j])) => ~IsMalformedFrame(ls[k])

\* C6: whenever the consumer is through with the sequence (it ended, it raised, or the
\* consumer stopped pulling), the connection of the stream is released.
C6_ConnectionReleasedOnEveryExit ==
    consumer \in {"finished", "failed", "stopped"} =>
        stream_client # "open" /\ stream_resp \notin {"pending", "open"}

\* C7: a sentinel frame that has been read is the last line read, and the sequence has
\* ended normally there.
C7_SentinelEndsTheSequence ==
    \A k \in 1..pos :
        IsSentinelFrame(lines[k]) =>
            pos = k /\ gen = "exhausted" /\ gen_error = "none" /\ consumer = "finished"

\* C8: on a 2xx stream whose payload frames are all well-formed, no decode error is
\* raised, and when the sequence has ended (sentinel or transport close) the chunks
\* yielded are the decoded payloads, one per frame, in the order of the frames.
C8_WellFormedFramesYieldedInOrder ==
    (status \in 200..299 /\ WellFormedStream(lines)) =>
        /\ gen_error # "JSONDecodeError"
        /\ consumer = "finished" => yielded = ExpectedChunks(lines)

\* C9: a payload frame that is not valid JSON and has been read is the last line read:
\* the generator raised the decode error there, the consumer received it, and the
\* chunks yielded are those of the frames before it, in order.
C9_MalformedFrameRaisesDecodeError ==
    \A k \in 1..pos :
        IsMalformedFrame(lines[k]) =>
            /\ pos = k
            /\ gen = "failed" /\ gen_error = "JSONDecodeError" /\ consumer = "failed"
            /\ yielded = ExpectedChunks(SubSeq(lines, 1, k - 1))

\* A decode error after one chunk was yielded, with a frame left unread behind it.
C9_Witness ==
    /\ gen_error = "JSONDecodeError"
    /\ pos >= 2 /\ pos < Len(lines)
    /\ IsMalformedFrame(lines[pos])
    /\ Len(yielded) >= 1

\* C10: every line read was treated as its class by the marker alone demands, however
\* many spaces follow the marker.
C10_FramesClassifiedByMarkerAlone ==
    \A k \in 1..pos : trace[k] = ExpectedClass(lines[k])

\* C11: on a streaming response whose status is not 2xx, no line of the body is read
\* and no chunk is yielded; once the response has arrived the generator has failed
\* with the status error and the consumer has received it.
C11_NonSuccessStatusFailsBeforeAnyChunk ==
    (status # 0 /\ status \notin 200..299) =>
        /\ pos = 0 /\ yielded = <<>>
        /\ gen \in {"created", "opening", "failed", "closed"}
        /\ gen = "failed" => gen_error = "HTTPStatusError" /\ consumer = "failed"

\* A 500 response whose body starts with a well-formed payload frame: the consumer has
\* the error and no chunk.
C11_Witness ==
    /\ status = 500
    /\ gen = "failed" /\ consumer = "failed"
    /\ Len(lines) >= 1 /\ ExpectedClass(lines[1]).kind = "chunk"

\* ------------------------------------------------------ claims on chat_stream

\* A chunk as the specification reads it: its error indicator, its choice list (empty
\* when absent), the content of its first choice's delta and of its first choice's
\* message (null when there is none).
HasError(chunk) == "error" \in DOMAIN chunk.dict
Choices(chunk) ==
    IF "choices" \in DOMAIN chunk.dict /\ "list" \in DOMAIN chunk.dict["choices"]
    THEN chunk.dict["choices"].list ELSE <<>>
ContentOf(chunk, field) ==
    IF Choices(chunk) = <<>> \/ field \notin DOMAIN Choices(chunk)[1].dict THEN JNull
    ELSE LET holder == Choices(chunk)[1].dict[field]
         IN  IF "dict" \in DOMAIN holder /\ "content" \in DOMAIN holder.dict
             THEN holder.dict["content"] ELSE JNull
DeltaContent(chunk) == ContentOf(chunk, "delta")
MessageContent(chunk) == ContentOf(chunk, "message")
IsText(v) == "str" \in DOMAIN v
IsParts(v) == "list" \in DOMAIN v

\* C14: a chunk with a top-level error indicator that chat_stream has taken is the
\* last one it took: the sequence has failed there, and nothing was yielded for it.
C14_ErrorChunkEndsTheStream ==
    \A k \in 1..chat_pos :
        HasError(chunks[k]) => chat_pos = k /\ chat = "failed" /\ emitted[k] = <<>>

\* C15: for a chunk without an error indicator whose choice list is empty or absent,
\* chat_stream yields nothing and raises nothing.
C15_EmptyChoicesAreSkipped ==
    \A k \in 1..chat_pos :
        (~HasError(chunks[k]) /\ Choices(chunks[k]) = <<>>) =>
            emitted[k] = <<>> /\ failed_at # k

\* Every chunk of the stream is a plain text delta: no error indicator, and a first
\* choice whose delta has string content.
AllTextDeltas ==
    \A k \in 1..Len(chunks) : ~HasError(chunks[k]) /\ IsText(DeltaContent(chunks[k]))

\* The delta contents of the chunks taken so far, in stream order.
ContentsTaken == [k \in 1..chat_pos |-> DeltaContent(chunks[k])]

NonEmptyText(v) == v.str # <<>>

RECURSIVE ConcatText(_)
\* The concatenation of a sequence of strings.
ConcatText(texts) ==
    IF texts = <<>> THEN <<>> ELSE Head(texts).str \o ConcatText(Tail(texts))

\* C16 as stated: on a stream of text deltas the fragments yielded are the delta
\* contents of the chunks taken, one fragment per chunk, in order.
C16_OneFragmentPerTextDelta ==
    AllTextDeltas => fragments = ContentsTaken

\* C16: on a stream of text deltas the fragments yielded are the non-empty delta
\* contents of the chunks taken, in order (a chunk whose content is the empty string
\* yields none), and their concatenation is the concatenation of the delta contents.
C16_NonEmptyTextDeltasYieldedInOrder ==
    AllTextDeltas =>
        /\ fragments = SelectSeq(ContentsTaken, NonEmptyText)
        /\ \A k \in 1..chat_pos :
               emitted[k] = IF NonEmptyText(DeltaContent(chunks[k]))
                            THEN <<DeltaContent(chunks[k])>> ELSE <<>>
        /\ ConcatText(fragments) = ConcatText(ContentsTaken)
        /\ failed_at = 0

\* A stream of three text deltas, the second of them empty, taken to its normal end.
C16_Witness ==
    /\ AllTextDeltas
    /\ chat = "exhausted" /\ chat_pos = 3
    /\ ~NonEmptyText(DeltaContent(chunks[2]))
    /\ ConcatText(fragments) = <<"Hel", "lo">>

\* The text fields of the parts of type "text", in list order.
TextsOf(parts) ==
    LET IsTextPart(part) ==
            /\ "dict" \in DOMAIN part /\ "type" \in DOMAIN part.dict
            /\ part.dict["type"] = JStr(<<"text">>) /\ "text" \in DOMAIN part.dict
        texts == SelectSeq(parts, IsTextPart)
    IN  [i \in 1..Len(texts) |-> texts[i].dict["text"]]

\* C17: for a chunk whose first choice's delta content is a list of parts, the
\* fragments yielded are the text fields of the parts of type "text", each a string
\* fragment of its own, in list order.
C17_PartsYieldTheirTexts ==
    \A k \in 1..chat_pos :
        (~HasError(chunks[k]) /\ IsParts(DeltaContent(chunks[k]))) =>
            emitted[k] = TextsOf(DeltaContent(chunks[k]).list)

\* The first choice of the chunk is there and carries no delta content.
NoDeltaContent(chunk) ==
    ~HasError(chunk) /\ Choices(chunk) # <<>> /\ DeltaContent(chunk) = JNull

\* C18: for a chunk whose first choice carries no delta content, the fragment yielded
\* is the string content of its message when it has one; otherwise nothing is yielded
\* and nothing is raised.
C18_MessageFallback ==
    \A k \in 1..chat_pos :
        NoDeltaContent(chunks[k]) =>
            IF IsText(MessageContent(chunks[k]))
            THEN emitted[k] = <<MessageContent(chunks[k])>>
            ELSE emitted[k] = <<>> /\ failed_at # k

\* ------------------------------------------------ claims on the request shaper

\* The call of task t has built its request.
Shaped(t) == args[t] # NoArgs /\ request[t] # NoRequest

\* What invoke hands to _build_headers for the call of task t (lines 206-211).
ContentTypeGiven(t) == EffectiveContentType(args[t].content_type, args[t].files, args[t].data)
AcceptGiven(t) == EffectiveAccept(args[t].accept, args[t].stream)
ExtraGiven(t) == IF args[t].headers = NoMap THEN EmptyMap ELSE args[t].headers

\* The base map of the claim: its keys, and the value of each.
BaseKeys(t) ==
    {"api-key"}
        \cup (IF Truthy(ContentTypeGiven(t)) THEN {"Content-Type"} ELSE {})
        \cup (IF Truthy(AcceptGiven(t)) THEN {"Accept"} ELSE {})
        \cup (IF args[t].extra_params_mode = "pass-through" THEN {"extra-parameters"} ELSE {})
BaseValue(t, key) ==
    CASE key = "api-key" -> azure_foundry_key_value
      [] key = "Content-Type" -> ContentTypeGiven(t)
      [] key = "Accept" -> AcceptGiven(t)
      [] key = "extra-parameters" -> <<"pass-through">>

\* C19: the headers of a request are the base map overlaid with the caller's extra
\* headers: api-key always, Content-Type iff a non-empty content type is given, Accept
\* iff a non-empty accept value is given, extra-parameters: pass-through iff the mode
\* is pass-through, the caller's keys, and no other key; on a key of both, the caller's
\* value.
C19_HeadersAreBaseOverlaidWithExtra ==
    \A t \in Tasks :
        Shaped(t) =>
            LET hdrs == request[t].kwargs["headers"]
            IN  /\ DOMAIN hdrs = BaseKeys(t) \cup DOMAIN ExtraGiven(t)
                /\ \A key \in DOMAIN hdrs :
                       hdrs[key] = IF key \in DOMAIN ExtraGiven(t)
                                   THEN ExtraGiven(t)[key] ELSE BaseValue(t, key)

\* A pass-through streaming call whose headers override api-key and Content-Type.
C19_Witness ==
    \E t \in Tasks :
        /\ Shaped(t)
        /\ "api-key" \in DOMAIN ExtraGiven(t)
        /\ Truthy(ContentTypeGiven(t))
        /\ args[t].stream /\ ~Truthy(args[t].accept)
        /\ args[t].extra_params_mode = "pass-through"
        /\ request[t].kwargs["headers"] =
               [k \in {"api-key", "Content-Type", "Accept", "extra-parameters"} |->
                   CASE k = "api-key" -> <<"caller-key">>
                     [] k = "Content-Type" -> <<"text/plain">>
                     [] k = "Accept" -> <<"text/event-stream">>
                     [] k = "extra-parameters" -> <<"pass-through">>]

\* The call of task t is a JSON request: no multipart files, no form data, no raw
\* content.
JsonRequest(t) ==
    ~TruthyMap(args[t].files) /\ ~TruthyMap(args[t].data) /\ args[t].raw = None

\* C20: in the wire body of a JSON request, a "model" key of the caller's body is kept
\* as it is; without one, a non-empty model argument is injected; without that, the
\* configured default deployment is.  Nothing else of the body changes.
C20_RoutingValuePrecedence ==
    \A t \in Tasks :
        (Shaped(t) /\ JsonRequest(t)) =>
            LET wire == request[t].kwargs["json"]
            IN  IF "model" \in DOMAIN args[t].body THEN wire = args[t].body
                ELSE IF Truthy(args[t].model)
                     THEN wire = ("model" :> args[t].model) @@ args[t].body
                ELSE Truthy(default_model_deployment) =>
                         wire = ("model" :> default_model_deployment) @@ args[t].body

\* A JSON call with a model argument on a client with a configured default, the body
\* without a "model" key: the argument is on the wire.
C20_Witness ==
    \E t \in Tasks :
        /\ Shaped(t) /\ JsonRequest(t)
        /\ "model" \notin DOMAIN args[t].body
        /\ args[t].model = <<"explicit-model">>
        /\ default_model_deployment = <<"default-deployment">>
        /\ request[t].kwargs["json"]["model"] = <<"explicit-model">>

\* C21: a JSON call on a route outside the routing-required set, with no "model" key
\* in its body and no model argument, sends the caller's body as it is.
C21_OptionalRoutingLeavesBodyUnchanged ==
    \A t \in Tasks :
        (/\ Shaped(t) /\ JsonRequest(t)
         /\ LStrip(args[t].route, {"/"}) \notin RoutingRequired
         /\ "model" \notin DOMAIN args[t].body
         /\ ~Truthy(args[t].model)) =>
            request[t].kwargs["json"] = args[t].body

\* The call of task t is multipart: it has files or form data.
Multipart(t) == TruthyMap(args[t].files) \/ TruthyMap(args[t].data)

\* The Content-Type header of the request of task t, None when it has none; it shows
\* what the header builder was given when the caller's headers set none themselves.
HeaderContentType(t) ==
    IF "Content-Type" \in DOMAIN request[t].kwargs["headers"]
    THEN request[t].kwargs["headers"]["Content-Type"] ELSE None
CallerSetsContentType(t) == "Content-Type" \in DOMAIN ExtraGiven(t)
ProvidedContentType(t) ==
    IF Truthy(args[t].content_type) THEN args[t].content_type ELSE None

\* C22 as stated: the content type is omitted for a multipart and for a raw request,
\* and is the provided one for a JSON request only.
C22_ContentTypeOnlyForJson ==
    \A t \in Tasks :
        (Shaped(t) /\ ~CallerSetsContentType(t)) =>
            HeaderContentType(t) = IF JsonRequest(t) THEN ProvidedContentType(t) ELSE None

\* C22: the content type is omitted for a multipart request (files or form data), and
\* is the provided one (application/json by default) for every other request, JSON or
\* raw.
C22_ContentTypeOmittedForMultipart ==
    \A t \in Tasks :
        (Shaped(t) /\ ~CallerSetsContentType(t)) =>
            HeaderContentType(t) = IF Multipart(t) THEN None ELSE ProvidedContentType(t)

\* A raw request sent with the default content type, and none of the caller's headers.
C22_Witness ==
    \E t \in Tasks :
        /\ Shaped(t) /\ ~CallerSetsContentType(t)
        /\ args[t].raw # None /\ ~Multipart(t)
        /\ "content" \in DOMAIN request[t].kwargs
        /\ HeaderContentType(t) = JsonContentType

\* C23: the wire body of a streaming JSON call carries stream = true; the Accept
\* header of a streaming call is text/event-stream unless the caller gave an accept
\* value, which is then the header; a call that does not stream and gives none has no
\* Accept header.
C23_StreamingSetsBodyFlagAndAccept ==
    \A t \in Tasks :
        (Shaped(t) /\ "Accept" \notin DOMAIN ExtraGiven(t)) =>
            LET hdrs == request[t].kwargs["headers"]
            IN  /\ (args[t].stream /\ JsonRequest(t)) =>
                       /\ "stream" \in DOMAIN request[t].kwargs["json"]
                       /\ request[t].kwargs["json"]["stream"] = TRUE
                /\ Truthy(args[t].accept) =>
                       "Accept" \in DOMAIN hdrs /\ hdrs["Accept"] = args[t].accept
                /\ (args[t].stream /\ ~Truthy(args[t].accept)) =>
                       "Accept" \in DOMAIN hdrs /\ hdrs["Accept"] = <<"text/event-stream">>
                /\ (~args[t].stream /\ ~Truthy(args[t].accept)) => "Accept" \notin DOMAIN hdrs

PayloadKeys(t) == DOMAIN request[t].kwargs \ {"headers"}

\* C28: a request carries one payload encoding: form fields and files, or raw
\* content, or a JSON body, and never two of them; whatever the arguments are, the
\* payload is the multipart one when files or data are given, else the raw one when
\* raw is given, else the JSON one.
C28_OnePayloadEncoding ==
    \A t \in Tasks :
        Shaped(t) =>
            /\ PayloadKeys(t) \in {{"json"}, {"content"}, {"data"}, {"files"}, {"data", "files"}}
            /\ Multipart(t) => PayloadKeys(t) \subseteq {"data", "files"}
            /\ (~Multipart(t) /\ args[t].raw # None) => PayloadKeys(t) = {"content"}
            /\ (~Multipart(t) /\ args[t].raw = None) => PayloadKeys(t) = {"json"}

\* A call given form data and raw bytes at once (and a body, as every call is): the
\* request carries the form data alone.
C28_Witness ==
    \E t \in Tasks :
        /\ Shaped(t)
        /\ TruthyMap(args[t].data) /\ ~TruthyMap(args[t].files) /\ args[t].raw # None
        /\ PayloadKeys(t) = {"data"}

\* C29: the body mapping the caller passed has, after the call and at every step of
\* it, the keys and values it was passed with.
C29_CallerBodyUntouched ==
    \A t \in Tasks : Shaped(t) => caller_body[t] = args[t].body

\* A call that sent its body with an injected "model" key and then failed.
C29_Witness ==
    \E t \in Tasks :
        /\ Shaped(t) /\ JsonRequest(t)
        /\ "model" \notin DOMAIN args[t].body
        /\ "model" \in DOMAIN request[t].kwargs["json"]
        /\ pc[t] = "done" /\ outcome[t].kind = "error"

\* ------------------------------------- further claims on the SSE generator

RECURSIVE JoinLines(_)
\* The body of the response: its lines with the line breaks between them.
JoinLines(ls) ==
    IF ls = <<>> THEN <<>>
    ELSE IF Len(ls) = 1 THEN ls[1]
    ELSE ls[1] \o <<"\n">> \o JoinLines(Tail(ls))

\* C25: on a 2xx response that is not an event stream, no decode error is raised, and
\* when the sequence has ended it has yielded the whole body parsed, as its one chunk,
\* when the body is JSON, and nothing when it is not.
C25_NonEventStreamFallback ==
    (status \in 200..299 /\ media_type # "text/event-stream") =>
        /\ gen_error # "JSONDecodeError"
        /\ consumer = "finished" =>
               yielded = IF JsonValid(JoinLines(lines))
                         THEN <<JsonLoads(JoinLines(lines))>> ELSE <<>>

\* C30: the streaming call has returned its generator and raised nothing; while the
\* consumer has not pulled, no POST is sent and no connection is open; the POST is
\* sent once, by the first pull; and a backend failure (no response, non-2xx status)
\* is raised by that pull, with nothing yielded.
C30_StreamingIsLazy ==
    /\ outcome[1] = Returned("iterator", <<>>) /\ posts[1] = 0
    /\ gen = "created" =>
           stream_posts = 0 /\ stream_client = "created" /\ stream_resp = "created"
    /\ gen \in {"opening", "running", "suspended", "exhausted", "failed"} => stream_posts = 1
    /\ stream_posts <= 1
    /\ (status \notin 200..299 /\ stream_posts = 1 /\ gen # "opening") =>
           gen = "failed" /\ consumer = "failed" /\ pos = 0 /\ yielded = <<>>

\* The first pull of the consumer has sent the POST and got the connection failure.
C30_Witness ==
    /\ status = 0
    /\ stream_posts = 1
    /\ gen = "failed" /\ gen_error = "TransportError" /\ consumer = "failed"
    /\ outcome[1] = Returned("iterator", <<>>)

\* ------------------------------------------------- inbound API requests

\* routes.py lines 29-40, with lines 62-77: the dependency of every route builds a new
\* AzureFoundryClient, whose resolved values and cached headers start empty, and awaits
\* its initialize(), which runs up to its first lookup.  Requests are taken one at a
\* time: the client of the request before is no longer used.
GetFoundryClient(t) ==
    /\ pc[t] = "idle"
    /\ \A u \in Tasks \ {t} : pc[u] \in {"idle", "done"}
    /\ azure_foundry_endpoint_value' = None
    /\ azure_foundry_key_value' = None
    /\ headers' = NoMap
    /\ pc' = [pc EXCEPT ![t] = "get_endpoint"]
    /\ init_calls' = [init_calls EXCEPT ![t] = @ + 1]
    /\ started_after_resolution' = [started_after_resolution EXCEPT ![t] = resolutions_done > 0]
    /\ UNCHANGED <<default_model_deployment, vault, endpoint_secret, args, caller_body,
                   request, outcome, get_secret_calls, posts, resolutions_done,
                   lookup_failure, response, chat_call, svars, cvars>>

\* A process that has served no request yet, with both secrets in the vault.
InitApi ==
    /\ Init
    /\ Truthy(ResolvedEndpoint(vault.endpoint))
    /\ Truthy(ResolvedKey(vault.key))

\* Each task is one inbound request: its client is built and initialized, then the
\* service makes its call with it.
NextApi ==
    \E t \in Tasks :
        \/ GetFoundryClient(t)
        \/ GetEndpointSecret(t)
        \/ GetKeySecret(t)
        \/ CloseSession(t)
        \/ Respond(t)

SpecApi == InitApi /\ [][NextApi]_vars

\* C26: over all the requests one process handles, while no lookup has failed, each of
\* the two secrets is looked up at most once: later requests reuse the resolved values.
C26_SecretsLookedUpOncePerProcess ==
    StoreHealthy => get_secret_calls.endpoint <= 1 /\ get_secret_calls.key <= 1

\* ------------------------------------------------------------ chat (one turn)

\* The prompts of the chat calls.
ChatPrompts == {<<"hi">>, <<"how are you">>}

\* Lines 260-261: the invoke call chat makes for a prompt.
ChatCall(prompt) ==
    Call(<<"chat/completions">>,
         [messages |-> <<[role |-> <<"user">>, content |-> prompt]>>], EmptyMap)

\* What the backend can answer a chat call with: a completion with one choice, with
\* two, with none, a JSON object that is no completion, a server error, no response.
ChatResponses ==
    {[status |-> 200, body |-> <<HelloText>>], [status |-> 200, body |-> <<HelloByeText>>],
     [status |-> 200, body |-> <<NoChoicesText>>], [status |-> 200, body |-> <<"{\"a\":1}">>],
     [status |-> 500, body |-> <<HelloText>>], [status |-> 0, body |-> <<>>]}

\* A slip in line 262: the last choice is taken, data["choices"][-1].
ChatResultOfLastChoice(o) ==
    IF o.kind = "error" THEN o
    ELSE IF "dict" \notin DOMAIN o.value THEN Raised("KeyError", "choices")
    ELSE IF "choices" \notin DOMAIN o.value.dict THEN Raised("KeyError", "choices")
    ELSE LET choices == o.value.dict["choices"].list IN
         IF choices = <<>> THEN Raised("IndexError", "none")
         ELSE LET last == choices[Len(choices)].dict IN
              IF "message" \notin DOMAIN last THEN Raised("KeyError", "message")
              ELSE IF "content" \notin DOMAIN last["message"].dict
              THEN Raised("KeyError", "content")
              ELSE Returned("value", last["message"].dict["content"])

\* Lines 261-262: what chat makes of invoke's outcome o: an exception of invoke goes
\* on to the caller; else data["choices"][0]["message"]["content"], each subscript of
\* which raises when the key or the index is missing.
ChatResult(o) ==
    IF o.kind = "error" THEN o
    ELSE IF "dict" \notin DOMAIN o.value THEN Raised("KeyError", "choices")
    ELSE IF "choices" \notin DOMAIN o.value.dict THEN Raised("KeyError", "choices")
    ELSE LET choices == o.value.dict["choices"].list IN
         IF choices = <<>> THEN Raised("IndexError", "none")
         ELSE LET first == choices[1].dict IN
              IF "message" \notin DOMAIN first THEN Raised("KeyError", "message")
              ELSE IF "content" \notin DOMAIN first["message"].dict
              THEN Raised("KeyError", "content")
              ELSE Returned("value", first["message"].dict["content"])

\* Lines 260-261 up to the await inside invoke: chat builds the one user message and
\* calls invoke, which shapes the request and sends its POST.
Chat(t) ==
    \E prompt \in ChatPrompts :
        /\ InvokeWith(t, {ChatCall(prompt)})
        /\ chat_call' = [chat_call EXCEPT ![t] = [prompt |-> prompt, result |-> NoOutcome]]

\* Lines 245-247, then 262: the response arrives, invoke returns or raises, and chat
\* returns the content of the first choice's message, or raises.
ChatReturns(t) ==
    /\ RespondWith(t, ChatResponses)
    /\ chat_call' = [chat_call EXCEPT ![t].result = ChatResult(outcome'[t])]

NextChatCall ==
    \E t \in Tasks :
        \/ Chat(t)
        \/ ChatReturns(t)

\* Chat calls on a client whose credentials are resolved.
SpecChatCall == InitShape /\ [][NextChatCall]_vars

\* --------------------------------------------------------- claims on chat

\* The response of task t is the completion with the text tokens doc.
Answered(t, doc) == response[t] = [status |-> 200, body |-> <<doc>>]

\* C27: a chat call makes one non-streaming invoke on chat/completions whose JSON body
\* carries the prompt as its single user message, and sends one POST; on a 2xx JSON
\* response invoke returns the decoded object as it is, and chat returns the content of
\* the first choice's message: "hello" for {choices:[{message:{content:"hello"}}]}, and
\* for the completion with the choices "hello" and "bye".
C27_ChatReturnsFirstChoiceContent ==
    \A t \in Tasks :
        chat_call[t] # NoChatCall =>
            /\ args[t].route = <<"chat/completions">>
            /\ ~args[t].stream
            /\ posts[t] = 1
            /\ request[t].kwargs["json"]["messages"] =
                   <<[role |-> <<"user">>, content |-> chat_call[t].prompt]>>
            /\ (pc[t] = "done" /\ Success(t) /\ JsonValid(response[t].body)) =>
                   outcome[t] = Returned("json", JsonLoads(response[t].body))
            /\ (Answered(t, HelloText) \/ Answered(t, HelloByeText)) =>
                   chat_call[t].result = Returned("value", JStr(<<"hello">>))

\* A chat call got the completion with two choices and has returned.
C27_Witness ==
    \E t \in Tasks :
        /\ Answered(t, HelloByeText)
        /\ chat_call[t].prompt = <<"hi">>
        /\ chat_call[t].result.kind = "value"

\* ------------------------------------------------ the SSE generator, scheduled

\* What the event loop and the consumer go on doing: the consumer pulls again or
\* leaves its loop; the response headers, the next line, the end of the body or a
\* failure arrive; an abandoned generator is collected and finalized.
StreamFairness ==
    /\ WF_vars(Pull \/ StopEarly)
    /\ WF_vars(OpenResponse)
    /\ WF_vars(ReadLine \/ EndOfLines \/ ReadFails)
    /\ WF_vars(Finalize)

SpecStreamFair == SpecStream /\ StreamFairness

\* C31: the HTTP client a streaming invoke created (line 229) is eventually closed,
\* whatever the consumer does with the sequence, dropping it unpulled included.
C31_StreamClientEventuallyClosed == <>(stream_client = "closed")

\* ------------------------------------------- further claims on the resolver

\* C32: while no initialize() has returned normally and none stands between storing
\* the values and returning, every initialize() that ended has failed, and the client
\* is still unresolved (line 114 would start resolution again) with no cached headers.
C32_FailedInitializeLeavesClientUnresolved ==
    (resolutions_done = 0 /\ \A t \in Tasks : pc[t] # "close_session") =>
        /\ Unresolved(azure_foundry_endpoint_value, azure_foundry_key_value)
        /\ headers = NoMap

====
